---- MODULE Spec2Model ----
(***************************************************************************)
(* Model of waymo_open_dataset/utils/sim_agents/submission_specs.py:      *)
(* the two submission configurations, the resolution of the agents to     *)
(* simulate and to evaluate, and the validation of a JointScene and of a  *)
(* ScenarioRollouts.  Every function of the module is pure; an action     *)
(* applies one function to the inputs held in the state and records what  *)
(* it returned or raised.                                                  *)
(*                                                                         *)
(* Data: a Track is [id, states] where states is the sequence of the      *)
(* per-step `valid` flags (Python index k is TLA+ index k + 1).  A        *)
(* SimulatedTrajectory is [object_id, center_x, center_y, center_z,       *)
(* heading]; each repeated field is represented by its length, the only   *)
(* attribute of it the code reads.                                         *)
(***************************************************************************)
EXTENDS Integers, Sequences, FiniteSets, TLC

VARIABLES scenario, challenge_type, joint_scene, scenario_rollouts,
          sim_ids_out, eval_ids_out, scene_out, rollouts_out

vars == <<scenario, challenge_type, joint_scene, scenario_rollouts,
          sim_ids_out, eval_ids_out, scene_out, rollouts_out>>

----------------------------------------------------------------------------
(* Bounds of the input space *)

MaxTracks == 2
MaxId == 2
MaxPredict == 2
MaxTrajectories == 2
NumStates == 12

----------------------------------------------------------------------------
(* ChallengeType and SubmissionConfig *)

SIM_AGENTS == "sim_agents"
SCENARIO_GEN == "scenario_gen"
ChallengeType == {SIM_AGENTS, SCENARIO_GEN}

_SIM_AGENTS_SUBMISSION_CONFIG ==
  [current_time_index |-> 10, n_simulation_steps |-> 80, n_rollouts |-> 32]

\* Variant: the scenario-generation profile with the 80 steps of the other.
_SCENARIO_GEN_SUBMISSION_CONFIG_80Steps ==
  [current_time_index |-> 10, n_simulation_steps |-> 80, n_rollouts |-> 32]

_SCENARIO_GEN_SUBMISSION_CONFIG ==
  [current_time_index |-> 10, n_simulation_steps |-> 91, n_rollouts |-> 32]

get_submission_config(ct) ==
  IF ct = SIM_AGENTS THEN _SIM_AGENTS_SUBMISSION_CONFIG
  ELSE _SCENARIO_GEN_SUBMISSION_CONFIG

\* Variant: reads the state one step before the current one.
is_valid_sim_agent_PreviousStep(config, track) ==
  track.states[config.current_time_index]

\* track.states[self.current_time_index].valid
is_valid_sim_agent(config, track) ==
  track.states[config.current_time_index + 1]

----------------------------------------------------------------------------
(* Outcomes of a call *)

NotCalled == [kind |-> "NotCalled"]
Return(v) == [kind |-> "Return", value |-> v]
IndexError == [kind |-> "IndexError"]
OK == [kind |-> "OK"]
ShapeMismatch(f, a, e) ==
  [kind |-> "ShapeMismatch", field |-> f, actual |-> a, expected |-> e]
UnknownAgent(id) == [kind |-> "UnknownAgent", object_id |-> id]
MissingAgents(m, s) ==
  [kind |-> "MissingAgents", missing |-> m, simulated_ids |-> s]
MissingField == [kind |-> "MissingField"]
CountMismatch(a, e) == [kind |-> "CountMismatch", actual |-> a, expected |-> e]

----------------------------------------------------------------------------
(* Helpers for Python values *)

Range(s) == {s[i] : i \in 1..Len(s)}

\* seq[i] of a Python sequence: negative indices count from the end.
InRange(s, i) == i >= -Len(s) /\ i < Len(s)
PyIndex(s, i) == IF i >= 0 THEN s[i + 1] ELSE s[Len(s) + i + 1]

SetMin(S) == CHOOSE x \in S : \A y \in S : x <= y

RECURSIVE sorted(_)
sorted(S) ==
  IF S = {} THEN <<>>
  ELSE LET m == SetMin(S) IN <<m>> \o sorted(S \ {m})

----------------------------------------------------------------------------
(* EligibilityResolver *)

RECURSIVE SimAgentLoop(_, _, _, _)
SimAgentLoop(config, tracks, i, object_ids) ==
  IF i > Len(tracks) THEN object_ids
  ELSE SimAgentLoop(config, tracks, i + 1,
         IF is_valid_sim_agent(config, tracks[i])
         THEN Append(object_ids, tracks[i].id)
         ELSE object_ids)

get_sim_agent_ids(sc, ct) ==
  SimAgentLoop(get_submission_config(ct), sc.tracks, 1, <<>>)

\* Variant: starts from the first `tracks_to_predict` entry's successor,
\* i.e. skips the first required prediction.
RECURSIVE PredictLoop_SkipFirst(_, _, _)
PredictLoop_SkipFirst(sc, i, object_ids) ==
  LET j == IF i = 1 THEN 2 ELSE i
  IN IF j > Len(sc.tracks_to_predict) THEN Return(sorted(object_ids))
     ELSE IF ~InRange(sc.tracks, sc.tracks_to_predict[j].track_index)
          THEN IndexError
     ELSE PredictLoop_SkipFirst(sc, j + 1,
            object_ids \cup
              {PyIndex(sc.tracks, sc.tracks_to_predict[j].track_index).id})

RECURSIVE PredictLoop(_, _, _)
PredictLoop(sc, i, object_ids) ==
  IF i > Len(sc.tracks_to_predict) THEN Return(sorted(object_ids))
  ELSE IF ~InRange(sc.tracks, sc.tracks_to_predict[i].track_index)
       THEN IndexError
  ELSE PredictLoop(sc, i + 1,
         object_ids \cup
           {PyIndex(sc.tracks, sc.tracks_to_predict[i].track_index).id})

\* Variant: the scenario-generation branch returns the ids sorted.
get_evaluation_sim_agent_ids_Sorted(sc, ct) ==
  IF ct = SIM_AGENTS
  THEN IF ~InRange(sc.tracks, sc.sdc_track_index) THEN IndexError
       ELSE PredictLoop(sc, 1, {PyIndex(sc.tracks, sc.sdc_track_index).id})
  ELSE Return(sorted(Range(get_sim_agent_ids(sc, ct))))

get_evaluation_sim_agent_ids(sc, ct) ==
  IF ct = SIM_AGENTS
  THEN IF ~InRange(sc.tracks, sc.sdc_track_index) THEN IndexError
       ELSE PredictLoop(sc, 1, {PyIndex(sc.tracks, sc.sdc_track_index).id})
  ELSE Return(get_sim_agent_ids(sc, ct))

----------------------------------------------------------------------------
(* LengthChecker and SubmissionValidator *)

_raise_if_wrong_length(trajectory, field_name, expected_length) ==
  IF trajectory[field_name] # expected_length
  THEN ShapeMismatch(field_name, trajectory[field_name], expected_length)
  ELSE OK

\* Variant: the heading is not checked.
CheckLengths_NoHeading(trajectory, n) ==
  LET cx == _raise_if_wrong_length(trajectory, "center_x", n)
      cy == _raise_if_wrong_length(trajectory, "center_y", n)
      cz == _raise_if_wrong_length(trajectory, "center_z", n)
  IN IF cx # OK THEN cx
     ELSE IF cy # OK THEN cy
     ELSE cz

\* The four length checks of one trajectory, in the order of the code.
CheckLengths(trajectory, n) ==
  LET cx == _raise_if_wrong_length(trajectory, "center_x", n)
      cy == _raise_if_wrong_length(trajectory, "center_y", n)
      cz == _raise_if_wrong_length(trajectory, "center_z", n)
      hd == _raise_if_wrong_length(trajectory, "heading", n)
  IN IF cx # OK THEN cx
     ELSE IF cy # OK THEN cy
     ELSE IF cz # OK THEN cz
     ELSE hd

\* Variant: agents are reported missing only when nothing was simulated.
CheckMissing_OnlyWhenEmpty(sim_agent_ids, simulated_ids) ==
  LET missing_agents == Range(sim_agent_ids) \ Range(simulated_ids)
  IN IF missing_agents # {} /\ simulated_ids = <<>>
     THEN MissingAgents(missing_agents, simulated_ids)
     ELSE OK

CheckMissing(sim_agent_ids, simulated_ids) ==
  LET missing_agents == Range(sim_agent_ids) \ Range(simulated_ids)
  IN IF missing_agents # {} THEN MissingAgents(missing_agents, simulated_ids)
     ELSE OK

\* Variant: the membership of the object_id is checked before the lengths.
RECURSIVE JointSceneLoop_IdFirst(_, _, _, _, _)
JointSceneLoop_IdFirst(config, sim_agent_ids, trajectories, i, simulated_ids) ==
  IF i > Len(trajectories) THEN CheckMissing(sim_agent_ids, simulated_ids)
  ELSE LET simulated_trajectory == trajectories[i]
           lengths == CheckLengths(simulated_trajectory,
                                   config.n_simulation_steps)
       IN IF simulated_trajectory.object_id \notin Range(sim_agent_ids)
          THEN UnknownAgent(simulated_trajectory.object_id)
          ELSE IF lengths # OK THEN lengths
          ELSE JointSceneLoop_IdFirst(config, sim_agent_ids, trajectories, i + 1,
                 Append(simulated_ids, simulated_trajectory.object_id))

RECURSIVE JointSceneLoop(_, _, _, _, _)
JointSceneLoop(config, sim_agent_ids, trajectories, i, simulated_ids) ==
  IF i > Len(trajectories) THEN CheckMissing(sim_agent_ids, simulated_ids)
  ELSE LET simulated_trajectory == trajectories[i]
           lengths == CheckLengths(simulated_trajectory,
                                   config.n_simulation_steps)
       IN IF lengths # OK THEN lengths
          ELSE IF simulated_trajectory.object_id \notin Range(sim_agent_ids)
               THEN UnknownAgent(simulated_trajectory.object_id)
          ELSE JointSceneLoop(config, sim_agent_ids, trajectories, i + 1,
                 Append(simulated_ids, simulated_trajectory.object_id))

validate_joint_scene(js, original_scenario, ct) ==
  JointSceneLoop(get_submission_config(ct),
                 get_sim_agent_ids(original_scenario, ct), js, 1, <<>>)

RECURSIVE RolloutsLoop(_, _, _, _)
RolloutsLoop(joint_scenes, original_scenario, ct, i) ==
  IF i > Len(joint_scenes) THEN OK
  ELSE LET r == validate_joint_scene(joint_scenes[i], original_scenario, ct)
       IN IF r # OK THEN r
          ELSE RolloutsLoop(joint_scenes, original_scenario, ct, i + 1)

\* Variant: more joint scenes than n_rollouts are accepted.
validate_scenario_rollouts_AtLeast(rollouts, original_scenario, ct) ==
  LET config == get_submission_config(ct)
  IN IF ~rollouts.has_scenario_id THEN MissingField
     ELSE IF Len(rollouts.joint_scenes) < config.n_rollouts
          THEN CountMismatch(Len(rollouts.joint_scenes), config.n_rollouts)
     ELSE RolloutsLoop(rollouts.joint_scenes, original_scenario, ct, 1)

\* Variant: the number of joint scenes is checked before the scenario_id.
validate_scenario_rollouts_CountFirst(rollouts, original_scenario, ct) ==
  LET config == get_submission_config(ct)
  IN IF Len(rollouts.joint_scenes) # config.n_rollouts
     THEN CountMismatch(Len(rollouts.joint_scenes), config.n_rollouts)
     ELSE IF ~rollouts.has_scenario_id THEN MissingField
     ELSE RolloutsLoop(rollouts.joint_scenes, original_scenario, ct, 1)

validate_scenario_rollouts(rollouts, original_scenario, ct) ==
  LET config == get_submission_config(ct)
  IN IF ~rollouts.has_scenario_id THEN MissingField
     ELSE IF Len(rollouts.joint_scenes) # config.n_rollouts
          THEN CountMismatch(Len(rollouts.joint_scenes), config.n_rollouts)
     ELSE RolloutsLoop(rollouts.joint_scenes, original_scenario, ct, 1)

----------------------------------------------------------------------------
(* Input spaces *)

SeqsUpTo(S, n) == UNION {[1..k -> S] : k \in 0..n}

\* Sequences of `valid` flags: valid at the current step only, valid at
\* every step but the current one.
OnlyCurrentValid == [k \in 1..NumStates |-> k = 11]
OnlyCurrentInvalid == [k \in 1..NumStates |-> k # 11]
StatePatterns == {OnlyCurrentValid, OnlyCurrentInvalid}

Ids == 1..MaxId
Tracks == [id : Ids, states : StatePatterns]
TrackLists == SeqsUpTo(Tracks, MaxTracks)
Predictions == [track_index : -1..MaxTracks]

IdScenarios ==
  [tracks : TrackLists, sdc_track_index : -1..MaxTracks,
   tracks_to_predict : SeqsUpTo(Predictions, MaxPredict)]

SceneScenarios ==
  [tracks : TrackLists, sdc_track_index : {0}, tracks_to_predict : {<<>>}]

Shape(x, y, z, h) ==
  [center_x |-> x, center_y |-> y, center_z |-> z, heading |-> h]
Shapes == {Shape(80, 80, 80, 80), Shape(91, 91, 91, 91),
           Shape(79, 80, 80, 80), Shape(80, 81, 80, 79),
           Shape(80, 80, 80, 91)}
Trajectory(id, sh) ==
  [object_id |-> id, center_x |-> sh.center_x, center_y |-> sh.center_y,
   center_z |-> sh.center_z, heading |-> sh.heading]
Trajectories == {Trajectory(id, sh) : id \in Ids, sh \in Shapes}
JointScenes == SeqsUpTo(Trajectories, MaxTrajectories)

NoScenario == [tracks |-> <<>>, sdc_track_index |-> 0, tracks_to_predict |-> <<>>]
NoRollouts == [has_scenario_id |-> FALSE, joint_scenes |-> <<>>]
NoOutcomes == [ct \in ChallengeType |-> NotCalled]

----------------------------------------------------------------------------
(* Resolution of the agent ids: the scenario and the challenge type are   *)
(* the inputs, each function is called once.                              *)

InitIds ==
  /\ scenario \in IdScenarios
  /\ challenge_type \in ChallengeType
  /\ joint_scene = <<>>
  /\ scenario_rollouts = NoRollouts
  /\ sim_ids_out = NotCalled
  /\ eval_ids_out = NotCalled
  /\ scene_out = NoOutcomes
  /\ rollouts_out = NotCalled

GetSimAgentIds ==
  /\ sim_ids_out = NotCalled
  /\ sim_ids_out' = Return(get_sim_agent_ids(scenario, challenge_type))
  /\ UNCHANGED <<scenario, challenge_type, joint_scene, scenario_rollouts,
                 eval_ids_out, scene_out, rollouts_out>>

GetEvaluationSimAgentIds ==
  /\ eval_ids_out = NotCalled
  /\ eval_ids_out' = get_evaluation_sim_agent_ids(scenario, challenge_type)
  /\ UNCHANGED <<scenario, challenge_type, joint_scene, scenario_rollouts,
                 sim_ids_out, scene_out, rollouts_out>>

NextIds == GetSimAgentIds \/ GetEvaluationSimAgentIds

SpecIds == InitIds /\ [][NextIds]_vars

----------------------------------------------------------------------------
(* Validation of one JointScene against a scenario, under each profile.   *)

InitScene ==
  /\ scenario \in SceneScenarios
  /\ challenge_type = SIM_AGENTS
  /\ joint_scene \in JointScenes
  /\ scenario_rollouts = NoRollouts
  /\ sim_ids_out = NotCalled
  /\ eval_ids_out = NotCalled
  /\ scene_out = NoOutcomes
  /\ rollouts_out = NotCalled

ValidateJointScene(ct) ==
  /\ scene_out[ct] = NotCalled
  /\ scene_out' = [scene_out EXCEPT
                     ![ct] = validate_joint_scene(joint_scene, scenario, ct)]
  /\ UNCHANGED <<scenario, challenge_type, joint_scene, scenario_rollouts,
                 sim_ids_out, eval_ids_out, rollouts_out>>

NextScene == \E ct \in ChallengeType : ValidateJointScene(ct)

SpecScene == InitScene /\ [][NextScene]_vars

----------------------------------------------------------------------------
(* Validation of a ScenarioRollouts.  The joint scenes are a run of one   *)
(* scene followed by a run of another, split at any position.             *)

RolloutScenarios == {sc \in SceneScenarios : Len(sc.tracks) <= 1}
RolloutScenes == {js \in JointScenes : Len(js) <= 1}
RolloutCounts ==
  UNION {{c.n_rollouts - 1, c.n_rollouts, c.n_rollouts + 1} :
           c \in {get_submission_config(ct) : ct \in ChallengeType}}
TwoRuns(a, p, b, n) == [k \in 1..n |-> IF k <= p THEN a ELSE b]

InitRollouts ==
  /\ scenario \in RolloutScenarios
  /\ challenge_type \in ChallengeType
  /\ joint_scene = <<>>
  /\ \E has \in BOOLEAN, n \in RolloutCounts :
       \E p \in 0..n, a \in RolloutScenes, b \in RolloutScenes :
         scenario_rollouts =
           [has_scenario_id |-> has, joint_scenes |-> TwoRuns(a, p, b, n)]
  /\ sim_ids_out = NotCalled
  /\ eval_ids_out = NotCalled
  /\ scene_out = NoOutcomes
  /\ rollouts_out = NotCalled

ValidateScenarioRollouts ==
  /\ rollouts_out = NotCalled
  /\ rollouts_out' =
       validate_scenario_rollouts(scenario_rollouts, scenario, challenge_type)
  /\ UNCHANGED <<scenario, challenge_type, joint_scene, scenario_rollouts,
                 sim_ids_out, eval_ids_out, scene_out>>

NextRollouts == ValidateScenarioRollouts

SpecRollouts == InitRollouts /\ [][NextRollouts]_vars

----------------------------------------------------------------------------
(* Vocabulary of the properties *)

StepsOf(ct) == IF ct = SIM_AGENTS THEN 80 ELSE 91
FieldNames == <<"center_x", "center_y", "center_z", "heading">>

\* Indices (1-based) of the tracks whose state at Python index 10 is valid.
ValidTrackIndices(sc) == {i \in 1..Len(sc.tracks) : sc.tracks[i].states[11]}
RequiredIds(sc) == {sc.tracks[i].id : i \in ValidTrackIndices(sc)}
ObjectIds(js) == {js[i].object_id : i \in 1..Len(js)}
DistinctTrackIds(sc) ==
  \A i, j \in 1..Len(sc.tracks) : sc.tracks[i].id = sc.tracks[j].id => i = j

LengthsRight(t, ct) == \A k \in 1..4 : t[FieldNames[k]] = StepsOf(ct)
TrajectoryRight(t, sc, ct) ==
  LengthsRight(t, ct) /\ t.object_id \in RequiredIds(sc)
SceneValid(js, sc, ct) ==
  /\ \A i \in 1..Len(js) : TrajectoryRight(js[i], sc, ct)
  /\ RequiredIds(sc) \subseteq ObjectIds(js)

C3_UniqueOnSuccess ==
  \A ct \in ChallengeType :
    scene_out[ct] = OK =>
      /\ \A i, j \in 1..Len(joint_scene) :
           joint_scene[i].object_id = joint_scene[j].object_id => i = j
      /\ Len(joint_scene) = Len(get_sim_agent_ids(scenario, ct))

\* C3 amended: a scene that validates has exactly the simulated agent ids
\* as its set of object_ids, each present at least once, so it has at
\* least as many trajectories as there are distinct simulated agent ids.
C3_ExactSetOnSuccess ==
  \A ct \in ChallengeType :
    scene_out[ct] = OK =>
      /\ ObjectIds(joint_scene) = Range(get_sim_agent_ids(scenario, ct))
      /\ Len(joint_scene) >=
           Cardinality(Range(get_sim_agent_ids(scenario, ct)))

C3_Witness ==
  /\ scene_out[SIM_AGENTS] = OK
  /\ Len(joint_scene) = 2
  /\ joint_scene[1].object_id = joint_scene[2].object_id
  /\ DistinctTrackIds(scenario)

\* The error the claims of C8 describe, stated over the whole scene.
WrongFields(t, ct) == {k \in 1..4 : t[FieldNames[k]] # StepsOf(ct)}
BadTrajectories(js, sc, ct) ==
  {i \in 1..Len(js) : ~TrajectoryRight(js[i], sc, ct)}
SceneVerdict(js, sc, ct) ==
  IF BadTrajectories(js, sc, ct) # {}
  THEN LET t == js[SetMin(BadTrajectories(js, sc, ct))]
       IN IF WrongFields(t, ct) # {}
          THEN LET f == FieldNames[SetMin(WrongFields(t, ct))]
               IN ShapeMismatch(f, t[f], StepsOf(ct))
          ELSE UnknownAgent(t.object_id)
  ELSE IF RequiredIds(sc) \subseteq ObjectIds(js) THEN OK
  ELSE MissingAgents(RequiredIds(sc) \ ObjectIds(js),
                     [i \in 1..Len(js) |-> js[i].object_id])

\* C8: the one error reported is decided by the first trajectory violating
\* a check; in it a wrong length (first wrong field in the order center_x,
\* center_y, center_z, heading) is preferred to UnknownAgent; MissingAgents
\* is reported only when no trajectory violates a check.
C8_FirstViolationDecides ==
  \A ct \in ChallengeType :
    scene_out[ct] # NotCalled =>
      scene_out[ct] = SceneVerdict(joint_scene, scenario, ct)

C8_Witness ==
  /\ scene_out[SIM_AGENTS] = ShapeMismatch("center_y", 81, 80)
  /\ Len(joint_scene) = 2
  /\ TrajectoryRight(joint_scene[1], scenario, SIM_AGENTS)
  /\ joint_scene[2].object_id \notin RequiredIds(scenario)
  /\ joint_scene[2].heading = 79

----------------------------------------------------------------------------
(* Properties of the agent-id resolution (SpecIds) *)

StrictlyAscending(r) == \A k \in 1..(Len(r) - 1) : r[k] < r[k + 1]
ReferencedIndices(sc) ==
  {sc.sdc_track_index} \cup
  {sc.tracks_to_predict[k].track_index : k \in 1..Len(sc.tracks_to_predict)}

\* C4: for SIM_AGENTS and a scenario whose sdc_track_index and
\* tracks_to_predict indices are in range, every evaluated agent id is a
\* simulated agent id.
C4_EvaluatedSubsetOfSimulated ==
  ( /\ challenge_type = SIM_AGENTS
    /\ sim_ids_out # NotCalled
    /\ eval_ids_out # NotCalled
    /\ \A i \in ReferencedIndices(scenario) :
         i >= 0 /\ i < Len(scenario.tracks) ) =>
    /\ eval_ids_out.kind = "Return"
    /\ Range(eval_ids_out.value) \subseteq Range(sim_ids_out.value)

\* C5: when the track ids are pairwise distinct, simulated_agent_ids is
\* the sequence of the ids of the tracks valid at index 10, in track
\* order, each once, and holds no id of a track invalid at that index.
C5_SimulatedIdsInTrackOrder ==
  (sim_ids_out # NotCalled /\ DistinctTrackIds(scenario)) =>
    LET r == sim_ids_out.value
        V == ValidTrackIndices(scenario)
    IN /\ Len(r) = Cardinality(V)
       /\ \A k \in 1..Len(r) :
            \E i \in V : /\ Cardinality({j \in V : j <= i}) = k
                          /\ r[k] = scenario.tracks[i].id
       /\ \A k1, k2 \in 1..Len(r) : r[k1] = r[k2] => k1 = k2
       /\ \A i \in (1..Len(scenario.tracks)) \ V :
            scenario.tracks[i].id \notin Range(r)

C5_Witness ==
  /\ sim_ids_out = Return(<<2, 1>>)
  /\ DistinctTrackIds(scenario)
  /\ scenario.tracks[1].states = OnlyCurrentValid

\* C6: for SIM_AGENTS, evaluated_agent_ids is strictly ascending and its
\* elements are exactly the id of the SDC track and the ids of the tracks
\* that tracks_to_predict references; it raises only when an index is out
\* of range.
C6_EvaluatedIdsSortedUnion ==
  (challenge_type = SIM_AGENTS /\ eval_ids_out # NotCalled) =>
    IF \E i \in ReferencedIndices(scenario) : ~InRange(scenario.tracks, i)
    THEN eval_ids_out = IndexError
    ELSE /\ eval_ids_out.kind = "Return"
         /\ StrictlyAscending(eval_ids_out.value)
         /\ Range(eval_ids_out.value) =
              {PyIndex(scenario.tracks, i).id :
                 i \in ReferencedIndices(scenario)}
         /\ PyIndex(scenario.tracks, scenario.sdc_track_index).id
              \in Range(eval_ids_out.value)

C6_Witness ==
  /\ challenge_type = SIM_AGENTS
  /\ eval_ids_out = Return(<<1, 2>>)
  /\ scenario.sdc_track_index = 0
  /\ scenario.tracks[1].id = 2
  /\ Len(scenario.tracks_to_predict) = 2
  /\ scenario.tracks_to_predict[1] = scenario.tracks_to_predict[2]

----------------------------------------------------------------------------
(* Properties of the validation of a ScenarioRollouts (SpecRollouts) *)

InvalidScenes(rollouts, sc, ct) ==
  {i \in 1..Len(rollouts.joint_scenes) :
     validate_joint_scene(rollouts.joint_scenes[i], sc, ct) # OK}

\* C2: validate_scenario_rollouts succeeds iff scenario_id is present,
\* there are exactly 32 joint scenes and validate_joint_scene succeeds on
\* each of them.
C2_RolloutsValidIff ==
  rollouts_out # NotCalled =>
    (rollouts_out = OK <=>
       /\ scenario_rollouts.has_scenario_id
       /\ Len(scenario_rollouts.joint_scenes) = 32
       /\ InvalidScenes(scenario_rollouts, scenario, challenge_type) = {})

C2_Witness ==
  /\ rollouts_out = OK
  /\ Len(scenario_rollouts.joint_scenes[32]) = 1

\* C9: MissingField when scenario_id is absent, whatever the scenes;
\* otherwise CountMismatch(actual, expected) when the count is not 32;
\* otherwise the error of the lowest-index invalid joint scene.
C9_RolloutsCheckOrder ==
  rollouts_out # NotCalled =>
    rollouts_out =
      IF ~scenario_rollouts.has_scenario_id THEN MissingField
      ELSE IF Len(scenario_rollouts.joint_scenes) # 32
           THEN CountMismatch(Len(scenario_rollouts.joint_scenes), 32)
      ELSE LET bad == InvalidScenes(scenario_rollouts, scenario,
                                    challenge_type)
           IN IF bad = {} THEN OK
              ELSE validate_joint_scene(
                     scenario_rollouts.joint_scenes[SetMin(bad)],
                     scenario, challenge_type)

C9_Witness ==
  /\ rollouts_out.kind = "UnknownAgent"
  /\ Len(scenario_rollouts.joint_scenes) = 32
  /\ validate_joint_scene(scenario_rollouts.joint_scenes[2], scenario,
                          challenge_type) # rollouts_out
  /\ validate_joint_scene(scenario_rollouts.joint_scenes[32], scenario,
                          challenge_type).kind = "ShapeMismatch"

====
